---- MODULE Spec2Model ----
(***************************************************************************)
(* Model of the Vagrant dynamic inventory plugin (vagrant.py).             *)
(*                                                                         *)
(* Text is a sequence of characters; a character is a one-symbol string.   *)
(* The output of the vagrant tool is built from lines of comma-separated   *)
(* fields and then handled character by character, the way the plugin      *)
(* handles it: str(output), split on the separator literal of the source,  *)
(* split on ",", string comparison of fields, int() of the fifth field.    *)
(***************************************************************************)
EXTENDS Integers, Sequences, FiniteSets, TLC

VARIABLES
    py,          \* major version of the interpreter running the plugin (2 or 3)
    eol,         \* line terminator the vagrant tool emits on this platform
    pc,          \* position of the current parse call
    args,        \* arguments and options of the current parse call
    cache,       \* the cache store (self._cache): cache key -> snapshot
    sink,        \* the inventory sink (self.inventory)
    cwd,         \* the process's working directory
    flags,       \* attempt_to_read_cache / cache_needs_update of parse
    results,     \* local `results` of parse (Unbound before its first assignment)
    fresults,    \* local `results` of fetch
    machines,    \* local `machines` of fetch
    idx,         \* position of fetch's loop in `machines`
    err,         \* the exception that ended the parse call, or "none"
    lastOut,     \* a parser call on its own: the stdout it was given
    lastPort,    \* a parser call on its own: the guest port it was given
    lastRet,     \* a parser call on its own: what it returned or raised
    hist,        \* history of the current parse call (events, writes, ...)
    nparse       \* number of parse calls made so far

vars == <<py, eol, pc, args, cache, sink, cwd, flags, results, fresults, machines,
          idx, err, lastOut, lastPort, lastRet, hist, nparse>>

----------------------------------------------------------------------------
(* Bounds *)

\* most lines in one output of the tool
MaxLines == 2
\* most parse calls in one behaviour
MaxParses == 2

----------------------------------------------------------------------------
(* Characters and text *)

LF == "<LF>"
CR == "<CR>"
BSL == "\\"
QUOTE == "'"
COMMA == ","

Digits == <<"0", "1", "2", "3", "4", "5", "6", "7", "8", "9">>

DigitSet == {Digits[i] : i \in 1..10}

DigitVal(c) == (CHOOSE i \in 1..10 : Digits[i] = c) - 1

\* characters int() strips from both ends of its argument
Whitespace == {LF, CR, " "}

W_state == <<"s", "t", "a", "t", "e">>
W_forwarded_port == <<"f", "o", "r", "w", "a", "r", "d", "e", "d", "_", "p", "o", "r", "t">>

\* str(n) of a non-negative integer: its decimal digits
RECURSIVE str_int(_)
str_int(n) ==
    IF n < 10 THEN <<Digits[n + 1]>>
    ELSE str_int(n \div 10) \o <<Digits[(n % 10) + 1]>>

RECURSIVE lstrip(_)
lstrip(s) ==
    IF s # <<>> /\ Head(s) \in Whitespace THEN lstrip(Tail(s)) ELSE s

RECURSIVE rstrip(_)
rstrip(s) ==
    IF s # <<>> /\ s[Len(s)] \in Whitespace THEN rstrip(SubSeq(s, 1, Len(s) - 1)) ELSE s

RECURSIVE digits_value(_)
digits_value(s) ==
    IF s = <<>> THEN 0
    ELSE 10 * digits_value(SubSeq(s, 1, Len(s) - 1)) + DigitVal(s[Len(s)])

ValueError == [kind |-> "ValueError", val |-> 0]
None == [kind |-> "None", val |-> 0]
IntVal(n) == [kind |-> "int", val |-> n]

\* int(s): surrounding whitespace is stripped, what is left must be decimal
\* digits, anything else raises ValueError
int_parse(s) ==
    LET t == rstrip(lstrip(s))
    IN IF t # <<>> /\ \A i \in 1..Len(t) : t[i] \in DigitSet
       THEN IntVal(digits_value(t))
       ELSE ValueError

\* repr of one byte inside a bytes literal
escape_byte(c) ==
    IF c = LF THEN <<BSL, "n">>
    ELSE IF c = CR THEN <<BSL, "r">>
    ELSE IF c = BSL THEN <<BSL, BSL>>
    ELSE <<c>>

\* repr of the bytes of s, one after the other
RECURSIVE escape_bytes(_)
escape_bytes(s) ==
    IF s = <<>> THEN <<>>
    ELSE IF Len(s) = 1 THEN escape_byte(s[1])
    ELSE LET h == Len(s) \div 2
         IN escape_bytes(SubSeq(s, 1, h)) \o escape_bytes(SubSeq(s, h + 1, Len(s)))

\* str(output) where output is what communicate() returns: on Python 3 a
\* bytes object, whose str() is its repr b'...'; on Python 2 the text itself
str_output(ver, out) ==
    IF ver = 3 THEN <<"b", QUOTE>> \o escape_bytes(out) \o <<QUOTE>> ELSE out

\* index of the first occurrence of sep in s at or after i, 0 when there is none
find_from(s, sep, i) ==
    LET hits == {j \in i..(Len(s) - Len(sep) + 1) : SubSeq(s, j, j + Len(sep) - 1) = sep}
    IN IF hits = {} THEN 0 ELSE CHOOSE j \in hits : \A k \in hits : j <= k

\* s.split(sep): the pieces of s between the non-overlapping occurrences of
\* sep, scanned left to right
RECURSIVE split_from(_, _, _)
split_from(s, sep, i) ==
    LET j == find_from(s, sep, i)
    IN IF j = 0 THEN <<SubSeq(s, i, Len(s))>>
       ELSE <<SubSeq(s, i, j - 1)>> \o split_from(s, sep, j + Len(sep))

split(s, sep) == split_from(s, sep, 1)

\* the separator literal '\\r\\n' of the source: backslash, r, backslash, n
LineSep == <<BSL, "r", BSL, "n">>

\* the lines get_machines and get_ssh_port iterate over
output_lines(ver, out) == split(str_output(ver, out), LineSep)

----------------------------------------------------------------------------
(* Parsers *)

RECURSIVE machines_of(_)
machines_of(lines) ==
    IF lines = <<>> THEN <<>>
    ELSE LET parts == split(Head(lines), <<COMMA>>)
         IN (IF Len(parts) >= 3 /\ parts[3] = W_state THEN <<parts[2]>> ELSE <<>>)
            \o machines_of(Tail(lines))

\* get_machines, given the stdout of `vagrant status --machine-readable`
get_machines(ver, out) == machines_of(output_lines(ver, out))

RECURSIVE ssh_port_of(_, _)
ssh_port_of(lines, guest_port) ==
    IF lines = <<>> THEN None
    ELSE LET parts == split(Head(lines), <<COMMA>>)
         IN IF /\ Len(parts) >= 5
               /\ parts[3] = W_forwarded_port
               /\ parts[4] = str_int(guest_port)
            THEN int_parse(parts[5])
            ELSE ssh_port_of(Tail(lines), guest_port)

\* get_ssh_port, given the stdout of `vagrant port <machine> --machine-readable`
get_ssh_port(ver, out, guest_port) == ssh_port_of(output_lines(ver, out), guest_port)

----------------------------------------------------------------------------
(* The vagrant tool: what a subprocess invocation can print *)

TS == <<"1">>
MachineA == <<"a">>
MachineB == <<"b">>
W_on == <<"o", "n">>
W_off == <<"o", "f", "f">>
W_ui == <<"u", "i">>

StateLine(m, st) == <<TS, m, W_state, st>>
UiLine == <<TS, <<>>, W_ui>>
FwdLine(guest, host) == <<TS, MachineA, W_forwarded_port, guest, host>>

RECURSIVE join_fields(_)
join_fields(fields) ==
    IF fields = <<>> THEN <<>>
    ELSE IF Len(fields) = 1 THEN fields[1]
    ELSE fields[1] \o <<COMMA>> \o join_fields(Tail(fields))

\* the tool's stdout for a sequence of lines, each ended by the terminator e
RECURSIVE text_of(_, _)
text_of(ls, e) ==
    IF ls = <<>> THEN <<>> ELSE join_fields(Head(ls)) \o e \o text_of(Tail(ls), e)

SeqsUpTo(S, n) == UNION {[1..k -> S] : k \in 0..n}

Eols == {<<LF>>, <<CR, LF>>}

\* lines of `vagrant status --machine-readable`
StatusLines == {StateLine(MachineA, W_on), StateLine(MachineB, W_off), UiLine}

\* lines of `vagrant port <machine> --machine-readable` that parse draws from
PortLines == {FwdLine(<<"2", "2">>, <<"2", "2", "2", "2">>),
              FwdLine(<<"2", "2">>, <<"0">>),
              UiLine}

\* further lines, for the parser calls on their own
MorePortLines == {FwdLine(<<"0", "2", "2">>, <<"2", "2", "0", "0">>),
                  FwdLine(<<"8", "0">>, <<"8", "0", "8", "0">>)}

\* what one invocation can print: up to MaxLines lines
StatusSeqs == SeqsUpTo(StatusLines, MaxLines)
PortSeqs == SeqsUpTo(PortLines, MaxLines)
AllPortSeqs == SeqsUpTo(PortLines \cup MorePortLines, MaxLines)

Versions == {2, 3}

----------------------------------------------------------------------------
(* Paths, options, snapshots, the inventory sink *)

isabs(p) == p # <<>> /\ p[1] = "/"
dirname(p) == SubSeq(p, 1, Len(p) - 1)
path_join(a, b) == IF isabs(b) THEN b ELSE a \o b

ConfigPaths == {<<"/", "inv", "vagrant.yml">>, <<"/", "lab", "vagrant.yaml">>}
ProjectPaths == {<<"/", "proj">>, <<"proj">>}

\* self.get_cache_key(path): a key that depends on the path alone
get_cache_key(path) == <<"vagrant">> \o path

EmptyDict == [m \in {} |-> {}]

\* a local name before its first assignment, and after it
Unbound == [bound |-> FALSE, val |-> EmptyDict]
Bound(v) == [bound |-> TRUE, val |-> v]

\* d[k] = v of a dict
dict_set(d, k, v) == [x \in DOMAIN d \cup {k} |-> IF x = k THEN v ELSE d[x]]

has_key(rec, k) == \E kv \in rec : kv[1] = k
value_of(rec, k) == (CHOOSE kv \in rec : kv[1] = k)[2]

EmptySink == [groups |-> {}, hosts |-> {}, members |-> {}, gvars |-> {}, hvars |-> {}]

\* inventory.add_group(group)
add_group(s, g) == [s EXCEPT !.groups = @ \cup {g}]

\* inventory.add_host(host, group)
add_host(s, h, g) ==
    [s EXCEPT !.hosts = @ \cup {h}, !.members = @ \cup {<<g, h>>}]

in_group(s, h, g) == <<g, h>> \in s.members

\* inventory.set_variable(entity, varname, value) on a group
set_group_variable(s, g, k, v) ==
    [s EXCEPT !.gvars = {t \in @ : ~(t[1] = g /\ t[2] = k)} \cup {<<g, k, v>>}]

\* inventory.set_variable(entity, varname, value) on a host
set_host_variable(s, h, k, v) ==
    [s EXCEPT !.hvars = {t \in @ : ~(t[1] = h /\ t[2] = k)} \cup {<<h, k, v>>}]

----------------------------------------------------------------------------
(* The two subprocess calls, tabulated over the outputs above: for each    *)
(* interpreter version, line terminator and printed lines, the stdout text *)
(* and what the parser makes of it.                                        *)

\* value of the ssh_port option when the configuration file does not set it
DefaultSshPort == 22

status_call ==
    [v \in Versions, e \in Eols, ls \in StatusSeqs |->
        LET out == text_of(ls, e)
        IN [out |-> out, ret |-> get_machines(v, out)]] @@ <<>>

\* values of the ssh_port option
SshPortOptions == {DefaultSshPort, 80}

port_call ==
    [v \in Versions, e \in Eols, guest_port \in SshPortOptions, ls \in AllPortSeqs |->
        LET out == text_of(ls, e)
        IN [out |-> out, ret |-> get_ssh_port(v, out, guest_port)]] @@ <<>>

----------------------------------------------------------------------------
(* populate *)

VagrantGroup == "vagrant_machines"
RunningGroup == "running"
NotRunningGroup == "not_running"

\* the three groups and the connection defaults of the root group
populate_groups(s) ==
    LET s1 == add_group(s, VagrantGroup)
        s2 == set_group_variable(s1, VagrantGroup, "ansible_host", "127.0.0.1")
        s3 == set_group_variable(s2, VagrantGroup, "ansible_user", "vagrant")
        s4 == add_group(s3, NotRunningGroup)
    IN add_group(s4, RunningGroup)

\* mutant of populate_host: the not_running membership is not in an else branch
populate_host_no_else(s, machine_name, machine) ==
    LET s1 == add_host(s, machine_name, VagrantGroup)
        s2 == IF has_key(machine, "ssh_port")
              THEN set_host_variable(add_host(s1, machine_name, RunningGroup),
                                     machine_name, "ansible_port", value_of(machine, "ssh_port"))
              ELSE s1
    IN add_host(s2, machine_name, NotRunningGroup)

\* the body of populate's loop for one item of the snapshot
populate_host(s, machine_name, machine) ==
    LET s1 == add_host(s, machine_name, VagrantGroup)
    IN IF has_key(machine, "ssh_port")
       THEN set_host_variable(add_host(s1, machine_name, RunningGroup),
                              machine_name, "ansible_port", value_of(machine, "ssh_port"))
       ELSE add_host(s1, machine_name, NotRunningGroup)

RECURSIVE populate_items(_, _, _)
populate_items(s, snap, todo) ==
    IF todo = {} THEN s
    ELSE LET m == CHOOSE x \in todo : TRUE
         IN populate_items(populate_host(s, m, snap[m]), snap, todo \ {m})

\* populate(results)
populate(s, snap) == populate_items(populate_groups(s), snap, DOMAIN snap)

----------------------------------------------------------------------------
(* parse *)

\* read if the user has caching enabled and the cache isn't being refreshed
attempt_to_read_cache(user_cache_setting, c) == user_cache_setting /\ c

\* mutants of cache_needs_update: a refresh on every parse of a caching user,
\* and a refresh that does not ask for the user's setting
cache_needs_update_always(user_cache_setting, c) == user_cache_setting
cache_needs_update_unasked(user_cache_setting, c) == ~c

\* update if the user has caching enabled and the cache is being refreshed
cache_needs_update(user_cache_setting, c) == user_cache_setting /\ ~c

NoHist == [events |-> <<>>, writes |-> <<>>, sink0 |-> EmptySink, cache0 |-> EmptyDict,
           read |-> "none", fetchCalled |-> FALSE, fetched |-> Unbound,
           populated |-> Unbound, toolFailed |-> FALSE]

NoArgs == [path |-> <<>>, cache |-> TRUE, user_cache_setting |-> TRUE,
           project_path |-> <<>>, ssh_port |-> DefaultSshPort]

Event(op, arg) == [op |-> op, arg |-> arg]

Init ==
    /\ py \in Versions
    /\ eol \in Eols
    /\ pc = "idle"
    /\ args = NoArgs
    /\ cache = EmptyDict
    /\ sink = EmptySink
    /\ cwd = <<"/">>
    /\ flags = [attempt_to_read_cache |-> FALSE, cache_needs_update |-> FALSE]
    /\ results = Unbound
    /\ fresults = EmptyDict
    /\ machines = <<>>
    /\ idx = 1
    /\ err = "none"
    /\ lastOut = <<>>
    /\ lastPort = DefaultSshPort
    /\ lastRet = None
    /\ hist = NoHist
    /\ nparse = 0

\* parse, from its entry to the decision between fetch and populate; `fresh`
\* tells whether the caller hands in a new inventory, `store` is what the
\* cache store's lookup does ("ok": the entry or KeyError; "fail": another error)
Parse ==
    /\ pc \in {"idle", "done", "error"}
    /\ nparse < MaxParses
    /\ \E path \in ConfigPaths, c \in BOOLEAN, u \in BOOLEAN,
          pp \in ProjectPaths, guest_ssh_port \in SshPortOptions,
          fresh \in BOOLEAN, store \in {"ok", "fail"} :
          LET key == get_cache_key(path)
              attempt == attempt_to_read_cache(u, c)
              update == cache_needs_update(u, c)
              inv == IF fresh THEN EmptySink ELSE sink
              hit == attempt /\ store = "ok" /\ key \in DOMAIN cache
              miss == attempt /\ store = "ok" /\ key \notin DOMAIN cache
              failed == attempt /\ store = "fail"
          IN /\ (store = "fail" => attempt)
             /\ args' = [path |-> path, cache |-> c, user_cache_setting |-> u,
                         project_path |-> pp, ssh_port |-> guest_ssh_port]
             /\ sink' = inv
             /\ flags' = [attempt_to_read_cache |-> attempt,
                          cache_needs_update |-> update \/ miss]
             /\ results' = IF hit THEN Bound(cache[key]) ELSE Unbound
             /\ hist' = [NoHist EXCEPT !.sink0 = inv, !.cache0 = cache,
                            !.read = IF hit THEN "hit" ELSE IF miss THEN "miss"
                                     ELSE IF failed THEN "fail" ELSE "none"]
             /\ pc' = IF failed THEN "error"
                      ELSE IF update \/ miss THEN "fetch" ELSE "populate"
             /\ err' = IF failed THEN "CacheError" ELSE "none"
    /\ nparse' = nparse + 1
    /\ fresults' = EmptyDict
    /\ machines' = <<>>
    /\ idx' = 1
    /\ UNCHANGED <<py, eol, cache, cwd, lastOut, lastPort, lastRet>>

----------------------------------------------------------------------------
(* fetch *)

\* mutant of fetch_raises: parse populates what fetch had built before it
\* lets the exception go on
fetch_raises_populating(e, h) ==
    /\ pc' = "error"
    /\ err' = e
    /\ hist' = h
    /\ sink' = populate(sink, fresults)
    /\ UNCHANGED <<cache, results>>

\* an exception raised inside fetch leaves fetch and parse: parse has no
\* handler around self.fetch(), so nothing is cached and nothing is populated
fetch_raises(e, h) ==
    /\ pc' = "error"
    /\ err' = e
    /\ hist' = h
    /\ UNCHANGED <<sink, cache, results>>

\* fetch, from its entry to os.chdir; `ok` tells whether the directory can
\* be entered
Fetch ==
    /\ pc = "fetch"
    /\ fresults' = EmptyDict
    /\ LET h == [hist EXCEPT !.fetchCalled = TRUE]
           project_path_in == args.project_path
       IN IF isabs(project_path_in)
          THEN \E ok \in BOOLEAN :
                  IF ok
                  THEN /\ cwd' = project_path_in
                       /\ pc' = "get_machines"
                       /\ hist' = [h EXCEPT !.events = Append(@, Event("chdir", project_path_in))]
                       /\ UNCHANGED <<err, sink, cache, results>>
                  ELSE /\ fetch_raises("OSError(chdir)", h)
                       /\ UNCHANGED cwd
          ELSE \* the name `path` is not defined in fetch
               /\ fetch_raises("NameError", h)
               /\ UNCHANGED cwd
    /\ UNCHANGED <<py, eol, args, flags, machines, idx, lastOut, lastPort, lastRet, nparse>>

\* machines = get_machines(): one `vagrant status` invocation
GetMachines ==
    /\ pc = "get_machines"
    /\ LET h == [hist EXCEPT !.events = Append(@, Event("status", <<>>))]
       IN \/ /\ fetch_raises("OSError", [h EXCEPT !.toolFailed = TRUE])
             /\ UNCHANGED machines
          \/ \E ls \in StatusSeqs :
                /\ machines' = status_call[py, eol, ls].ret
                /\ pc' = "loop"
                /\ hist' = h
                /\ UNCHANGED <<err, sink, cache, results>>
    /\ idx' = 1
    /\ UNCHANGED <<py, eol, args, cwd, flags, fresults, lastOut, lastPort, lastRet, nparse>>

\* a value that `if ssh_port:` takes as true
truthy(r) == r.kind = "int" /\ r.val # 0

\* the record fetch builds for a machine from what get_ssh_port returned
machine_record(ssh_port) ==
    IF truthy(ssh_port) THEN {<<"ssh_port", ssh_port.val>>} ELSE {}

\* one turn of fetch's loop: one `vagrant port <machine>` invocation
GetSshPort ==
    /\ pc = "loop"
    /\ idx <= Len(machines)
    /\ LET machine == machines[idx]
           r0 == dict_set(fresults, machine, {})
           h == [hist EXCEPT !.events = Append(@, Event("port", machine))]
       IN \/ /\ fetch_raises("OSError", [h EXCEPT !.toolFailed = TRUE])
             /\ fresults' = r0
             /\ UNCHANGED idx
          \/ \E ls \in PortSeqs :
                LET ssh_port == port_call[py, eol, args.ssh_port, ls].ret
                IN IF ssh_port = ValueError
                   THEN /\ fetch_raises("ValueError", h)
                        /\ fresults' = r0
                        /\ UNCHANGED idx
                   ELSE /\ fresults' = dict_set(r0, machine, machine_record(ssh_port))
                        /\ idx' = idx + 1
                        /\ pc' = "loop"
                        /\ hist' = h
                        /\ UNCHANGED <<err, sink, cache, results>>
    /\ UNCHANGED <<py, eol, args, cwd, flags, machines, lastOut, lastPort, lastRet, nparse>>

\* fetch returns its results and parse stores them under the cache key
FetchReturn ==
    /\ pc = "loop"
    /\ idx > Len(machines)
    /\ results' = Bound(fresults)
    /\ cache' = dict_set(cache, get_cache_key(args.path), fresults)
    /\ hist' = [hist EXCEPT !.fetched = Bound(fresults),
                            !.writes = Append(@, <<get_cache_key(args.path), fresults>>)]
    /\ pc' = "populate"
    /\ UNCHANGED <<py, eol, args, sink, cwd, flags, fresults, machines, idx, err,
                   lastOut, lastPort, lastRet, nparse>>

\* self.populate(results), the last statement of parse
Populate ==
    /\ pc = "populate"
    /\ IF results.bound
       THEN /\ sink' = populate(sink, results.val)
            /\ hist' = [hist EXCEPT !.populated = results]
            /\ pc' = "done"
            /\ UNCHANGED err
       ELSE \* `results` was never assigned
            /\ pc' = "error"
            /\ err' = "UnboundLocalError"
            /\ UNCHANGED <<sink, hist>>
    /\ UNCHANGED <<py, eol, args, cache, cwd, flags, results, fresults, machines, idx,
                   lastOut, lastPort, lastRet, nparse>>

Next == Parse \/ Fetch \/ GetMachines \/ GetSshPort \/ FetchReturn \/ Populate

Spec == Init /\ [][Next]_vars

----------------------------------------------------------------------------
(* The parsers on their own: get_machines and get_ssh_port applied to the  *)
(* outputs the tool can print, for each interpreter and line terminator.   *)

Machines(ms) == [kind |-> "machines", val |-> ms]

CallGetMachines ==
    /\ pc = "idle"
    /\ \E ls \in StatusSeqs :
          /\ lastOut' = status_call[py, eol, ls].out
          /\ lastRet' = Machines(status_call[py, eol, ls].ret)
    /\ UNCHANGED <<py, eol, pc, args, cache, sink, cwd, flags, results, fresults,
                   machines, idx, err, lastPort, hist, nparse>>

CallGetSshPort ==
    /\ pc = "idle"
    /\ \E ls \in AllPortSeqs, guest_port \in SshPortOptions :
          /\ lastOut' = port_call[py, eol, guest_port, ls].out
          /\ lastPort' = guest_port
          /\ lastRet' = port_call[py, eol, guest_port, ls].ret
    /\ UNCHANGED <<py, eol, pc, args, cache, sink, cwd, flags, results, fresults,
                   machines, idx, err, hist, nparse>>

NextParsers == CallGetMachines \/ CallGetSshPort

SpecParsers == Init /\ [][NextParsers]_vars

----------------------------------------------------------------------------
(* What the specification says the parsers return, on real line boundaries *)

\* the lines of a text whose lines each end with the terminator e
ref_lines(out, e) ==
    LET ps == split(out, e)
    IN IF ps[Len(ps)] = <<>> THEN SubSeq(ps, 1, Len(ps) - 1) ELSE ps

RECURSIVE ref_guests(_)
ref_guests(lines) ==
    IF lines = <<>> THEN <<>>
    ELSE LET fields == split(Head(lines), <<COMMA>>)
         IN (IF Len(fields) >= 3 /\ fields[3] = W_state THEN <<fields[2]>> ELSE <<>>)
            \o ref_guests(Tail(lines))

ref_list_guests(out, e) == ref_guests(ref_lines(out, e))

RECURSIVE ref_port(_, _)
ref_port(lines, internal_port) ==
    IF lines = <<>> THEN None
    ELSE LET fields == split(Head(lines), <<COMMA>>)
         IN IF /\ Len(fields) >= 5
               /\ fields[3] = W_forwarded_port
               /\ int_parse(fields[4]) = IntVal(internal_port)
            THEN int_parse(fields[5])
            ELSE ref_port(Tail(lines), internal_port)

ref_resolve_port(out, e, internal_port) == ref_port(ref_lines(out, e), internal_port)

----------------------------------------------------------------------------
(* Claims *)

Ended == nparse > 0 /\ pc \in {"done", "error"}
Key == get_cache_key(args.path)

\* the cases in which the specification asks for a fresh fetch
FreshFetchRequired ==
    \/ ~args.user_cache_setting
    \/ ~args.cache
    \/ hist.read = "miss"

\* C1: when caching is disabled by configuration, or the caller asks for a
\* refresh, or the cache has no entry for the key, a parse that has ended has
\* called fetch, and if it completed, populate received the fetched snapshot.
C1_FreshFetchPerformed ==
    (Ended /\ FreshFetchRequired) =>
        /\ hist.fetchCalled
        /\ (pc = "done" => hist.fetched.bound /\ hist.populated = hist.fetched)

\* C2: when the cache holds a snapshot S under the key and parse runs with
\* caching enabled and no refresh, no subprocess is invoked, the entry under
\* the key stays S, and (the store's lookup returning) parse goes on to
\* populate with exactly S.
C2_CacheRoundTrip ==
    (nparse > 0 /\ args.user_cache_setting /\ args.cache /\ Key \in DOMAIN hist.cache0) =>
        /\ hist.events = <<>>
        /\ ~hist.fetchCalled
        /\ Key \in DOMAIN cache /\ cache[Key] = hist.cache0[Key]
        /\ (hist.read # "fail" =>
               /\ pc \in {"populate", "done"}
               /\ results = Bound(hist.cache0[Key])
               /\ (pc = "done" => hist.populated = Bound(hist.cache0[Key])))

\* a parse served from a cache entry that holds a machine with a port
C2_Witness ==
    /\ pc = "done"
    /\ args.user_cache_setting /\ args.cache
    /\ Key \in DOMAIN hist.cache0
    /\ hist.populated = Bound(hist.cache0[Key])
    /\ \E m \in DOMAIN hist.cache0[Key] : has_key(hist.cache0[Key][m], "ssh_port")

\* C3: after populate(snapshot) on a fresh sink, the hosts of the sink are
\* the guests of the snapshot; each is in vagrant_machines and in exactly one
\* of running / not_running, in running exactly when its record has ssh_port,
\* and then its ansible_port is that ssh_port.
C3_PopulateGroups ==
    (pc = "done" /\ hist.sink0 = EmptySink) =>
        LET snap == hist.populated.val
        IN /\ sink.hosts = DOMAIN snap
           /\ \A t \in sink.members : t[2] \in DOMAIN snap
           /\ \A t \in sink.hvars : t[1] \in DOMAIN snap
           /\ \A m \in DOMAIN snap :
                 /\ in_group(sink, m, VagrantGroup)
                 /\ in_group(sink, m, RunningGroup) # in_group(sink, m, NotRunningGroup)
                 /\ in_group(sink, m, RunningGroup) = has_key(snap[m], "ssh_port")
                 /\ has_key(snap[m], "ssh_port") =>
                        {t \in sink.hvars : t[1] = m} =
                            {<<m, "ansible_port", value_of(snap[m], "ssh_port")>>}
                 /\ ~has_key(snap[m], "ssh_port") => {t \in sink.hvars : t[1] = m} = {}

\* a fresh sink populated with a running and a not running guest
C3_Witness ==
    /\ pc = "done"
    /\ hist.sink0 = EmptySink
    /\ \E m1, m2 \in DOMAIN hist.populated.val :
          /\ has_key(hist.populated.val[m1], "ssh_port")
          /\ ~has_key(hist.populated.val[m2], "ssh_port")
          /\ in_group(sink, m1, RunningGroup)
          /\ in_group(sink, m2, NotRunningGroup)

\* C4: the record fetch builds for a guest has ssh_port exactly when the port
\* output holds a forwarded-port line for the configured internal port, and
\* then ssh_port is the external port of that line, 0 included. Stated for
\* the calls in which get_ssh_port itself returned what the line says.
C4_PortRecorded ==
    LET ref == ref_resolve_port(lastOut, eol, lastPort)
        rec == machine_record(lastRet)
    IN (lastRet.kind \in {"int", "None"} /\ lastRet = ref) =>
           /\ has_key(rec, "ssh_port") = (ref.kind = "int")
           /\ (ref.kind = "int" => value_of(rec, "ssh_port") = ref.val)

\* C5: once a subprocess invocation of a fresh fetch has failed, parse has
\* ended with the error and the sink is as it was when parse began: nothing
\* was populated.
C5_NoPartialSuccess ==
    hist.toolFailed =>
        /\ pc = "error"
        /\ err = "OSError"
        /\ sink = hist.sink0
        /\ ~hist.populated.bound

\* a port invocation that fails after an earlier guest was resolved with a
\* port, on a sink that already holds hosts
C5_Witness ==
    /\ hist.toolFailed
    /\ Len(hist.events) = 4
    /\ \E m \in DOMAIN fresults : has_key(fresults[m], "ssh_port")
    /\ sink.hosts # {}

\* C6: with caching enabled and no refresh, a lookup miss and a read failure
\* of the store both lead parse to a fresh fetch, and neither ends parse with
\* the store's error.
C6_ReadFailureFetches ==
    (Ended /\ args.user_cache_setting /\ args.cache /\ hist.read \in {"miss", "fail"}) =>
        /\ hist.fetchCalled
        /\ err # "CacheError"

\* C7: get_machines returns the 2nd fields of the lines whose 3rd field is
\* `state`, in line order, duplicates kept, every other line ignored.
C7_ListGuests ==
    lastRet.kind = "machines" => lastRet.val = ref_list_guests(lastOut, eol)

\* C8: get_ssh_port returns the 5th field, as an integer, of the first line
\* with at least 5 fields whose 3rd field is `forwarded_port` and whose 4th
\* field, as an integer, equals the internal port; absent when there is none.
C8_ResolvePort ==
    lastRet.kind \in {"int", "None", "ValueError"} =>
        lastRet = ref_resolve_port(lastOut, eol, lastPort)

\* the project path the specification resolves: the absolute path itself, or
\* the relative path joined to the directory of the configuration file
ResolvedProjectPath ==
    IF isabs(args.project_path) THEN args.project_path
    ELSE path_join(dirname(args.path), args.project_path)

RECURSIVE port_events(_)
port_events(ms) ==
    IF ms = <<>> THEN <<>> ELSE <<Event("port", Head(ms))>> \o port_events(Tail(ms))

\* C9: a fresh fetch (of a project directory that can be entered) first sets
\* the working directory to the resolved project path, for an absolute and a
\* relative project_path alike, then invokes discovery once, then the port
\* command once per identifier in discovery order.
C9_FetchOrder ==
    (hist.fetchCalled /\ err # "OSError(chdir)") =>
        /\ Len(hist.events) >= 1
        /\ hist.events[1] = Event("chdir", ResolvedProjectPath)
        /\ cwd = ResolvedProjectPath
        /\ (hist.fetched.bound =>
               hist.events = <<Event("chdir", ResolvedProjectPath), Event("status", <<>>)>>
                             \o port_events(machines))

\* C10: a parse writes the cache store at most once, under the computed key,
\* after fetch returned, and what it writes is what populate receives; the
\* store changes in no other way; a parse with caching disabled and a parse
\* that ends with an error write nothing.
C10_CacheWrites ==
    /\ Len(hist.writes) <= 1
    /\ cache = IF hist.writes = <<>> THEN hist.cache0
               ELSE dict_set(hist.cache0, hist.writes[1][1], hist.writes[1][2])
    /\ hist.writes # <<>> =>
          /\ hist.writes[1][1] = Key
          /\ hist.fetched = Bound(hist.writes[1][2])
          /\ args.user_cache_setting
          /\ pc \in {"populate", "done"}
          /\ (pc = "done" => hist.populated = Bound(hist.writes[1][2]))
    /\ (pc = "error" => cache = hist.cache0)
    /\ (nparse > 0 /\ ~args.user_cache_setting => cache = hist.cache0)

\* a second parse that stores a snapshot with a port under its own key and
\* leaves the entry of the first parse alone
C10_Witness ==
    /\ pc = "done"
    /\ hist.writes # <<>>
    /\ hist.cache0 # EmptyDict
    /\ Key \notin DOMAIN hist.cache0
    /\ \E m \in DOMAIN cache[Key] : has_key(cache[Key][m], "ssh_port")

====
